---- MODULE Spec2Model ----
(***************************************************************************)
(* hh.ru -> PostgreSQL loader (mitraslav/db_corsework).                    *)
(*                                                                         *)
(* The store is the two tables of db_setup.create_tables, written by       *)
(* loader.upsert_companies / loader.insert_vacancies and read by the       *)
(* DBManager queries.  SQL is modelled by what PostgreSQL does with the    *)
(* statements in the source: SERIAL ids come from a sequence that is       *)
(* advanced for every row proposed for insertion (also when the row ends   *)
(* in DO UPDATE, also when the transaction rolls back), ON CONFLICT DO     *)
(* UPDATE refuses to touch the same row twice in one statement, NULL       *)
(* compares to nothing, AVG skips NULLs.                                   *)
(*                                                                         *)
(* An optional value (Python None / SQL NULL) is the empty sequence, a     *)
(* present value v is <<v>>.                                               *)
(***************************************************************************)
EXTENDS Integers, Sequences, FiniteSets, Bags, TLC

VARIABLES
    companies,      \* committed rows of table companies
    vacancies,      \* committed rows of table vacancies
    companies_seq,  \* last value of companies_id_seq  (id SERIAL)
    vacancies_seq,  \* last value of vacancies_id_seq  (id SERIAL)
    lastCall,       \* history: the last store call, its argument, whether it raised,
                    \*          whether it repeats the call before it
    prevCompanies,  \* history: table companies before the last store call
    prevVacancies,  \* history: table vacancies before the last store call
    upserted,       \* history: every hh_id ever passed to upsert_companies
    result,         \* what the last DBManager query returned
    \* HeadHunterAPI.get_vacancies_by_employer
    api_pc,         \* "idle", "loop" (between two page requests), "returned", "raised"
    max_pages,      \* the max_pages argument of the call
    page,           \* the loop variable: the page to request next
    all_items,      \* the list all_items
    api_return,     \* the list the call returned, None while it has returned nothing
    requests,       \* history: the page requests of the call, each with its response
    \* loader.load_hh_data_to_db
    load_pc,        \* "idle", "employers", "postings", "done", "failed"
    seeds,          \* the seeds argument: the hh_ids of the employers to load
    seed_i,         \* position in seeds of the employer to fetch next
    employers_payload,  \* the list employers_payload
    all_vacancies,  \* the list all_vacancies
    failed_at,      \* the call whose exception ended the run
    load_start,     \* history: the two tables when the run began
    load_writes,    \* history: the store calls the run has executed
    \* one writer call as a transaction, statement row by statement row
    tx_pc,          \* "idle", "open" (inside "with conn:")
    tx_rows,        \* rows of the VALUES list the statement has not reached
    tx_st,          \* the statement's state: the table as the transaction sees it
    tx_seq0,        \* history: the sequence when the transaction began
    tx_seen         \* the tables a reader's query last read, None before it reads

storeVars == <<companies, vacancies, companies_seq, vacancies_seq>>
histVars  == <<lastCall, prevCompanies, prevVacancies, upserted>>
apiVars   == <<api_pc, max_pages, page, all_items, api_return, requests>>
loadVars  == <<load_pc, seeds, seed_i, employers_payload, all_vacancies, failed_at,
               load_start, load_writes>>
txVars    == <<tx_pc, tx_rows, tx_st, tx_seq0, tx_seen>>

----------------------------------------------------------------------------
(* Bounds of the model *)

MaxHh == 2          \* external ids (hh_id) of employers and of postings: 1..MaxHh
MaxBatch == 2       \* rows in one call (below execute_values' page of 100: one statement)
MaxCompanySeq == 3  \* companies_id_seq is not advanced past this
MaxVacancySeq == 2  \* vacancies_id_seq is not advanced past this

----------------------------------------------------------------------------
(* Values *)

None == <<>>
Some(v) == <<v>>
IsNone(o) == o = <<>>
Val(o) == o[1]

HhIds == 1..MaxHh
Names == {"a", "b"}

\* a or b, on optional values (Python: None is falsy)
Or(a, b) == IF IsNone(a) THEN b ELSE a

SeqsUpTo(S, n) == UNION {[1..k -> S] : k \in 0..n}

----------------------------------------------------------------------------
(* loader.upsert_companies *)

\* an employer object of the API, as upsert_companies reads it
EmployerPayloads ==
    [id : HhIds, name : Names,
     alternate_url : {None, Some("alt")}, url : {Some("api")}]

\* loader.py:62, the tuple (hh_id, name, url) built for one employer
CompanyTuple(emp) ==
    [hh_id |-> emp.id, name |-> emp.name, url |-> Or(emp.alternate_url, emp.url)]

CompanyTuples(employers) == [i \in DOMAIN employers |-> CompanyTuple(employers[i])]

\* a conflicting row is replaced by a fresh row (delete and insert) instead of
\* being updated in place, so it gets a new id
ReplaceCompanyRow(st, row) ==
    IF st.raised THEN st
    ELSE LET id == st.seq + 1
         IN IF row.hh_id \in st.touched
            THEN [st EXCEPT !.seq = id, !.raised = TRUE]
            ELSE [st EXCEPT
                    !.seq = id,
                    !.touched = @ \cup {row.hh_id},
                    !.tbl = {r \in @ : r.hh_id # row.hh_id}
                            \cup {[id |-> id, hh_id |-> row.hh_id,
                                   name |-> row.name, url |-> row.url]}]

\* INSERT INTO companies (hh_id, name, url) VALUES row
\* ON CONFLICT (hh_id) DO UPDATE SET name = EXCLUDED.name, url = EXCLUDED.url
\* for one row of the VALUES list.  st = [tbl, seq, touched, raised]:
\* the table as the statement sees it, the sequence, the hh_ids this statement
\* has already inserted or updated, and whether it has failed.
UpsertCompanyRow(st, row) ==
    IF st.raised THEN st
    ELSE LET id == st.seq + 1       \* DEFAULT nextval('companies_id_seq')
         IN IF row.hh_id \in st.touched
            THEN \* "ON CONFLICT DO UPDATE command cannot affect row a second time"
                 [st EXCEPT !.seq = id, !.raised = TRUE]
            ELSE IF \E r \in st.tbl : r.hh_id = row.hh_id
            THEN [st EXCEPT
                    !.seq = id,
                    !.touched = @ \cup {row.hh_id},
                    !.tbl = {IF r.hh_id = row.hh_id
                             THEN [r EXCEPT !.name = row.name, !.url = row.url]
                             ELSE r : r \in @}]
            ELSE [st EXCEPT
                    !.seq = id,
                    !.touched = @ \cup {row.hh_id},
                    !.tbl = @ \cup {[id |-> id, hh_id |-> row.hh_id,
                                     name |-> row.name, url |-> row.url]}]

\* execute_values(cur, "INSERT INTO companies ...", rows): one statement
RECURSIVE ExecuteCompanies(_, _)
ExecuteCompanies(st, rows) ==
    IF rows = <<>> THEN st
    ELSE ExecuteCompanies(UpsertCompanyRow(st, Head(rows)), Tail(rows))

\* The outcome of upsert_companies(config, employers) on the committed store:
\* [tbl, seq, raised].  "with conn:" commits when the block ends and rolls the
\* table back when it raises; the sequence is never rolled back.
UpsertCompaniesOutcome(tbl, seq, employers) ==
    LET rows == CompanyTuples(employers)
    IN IF rows = <<>> THEN [tbl |-> tbl, seq |-> seq, raised |-> FALSE]
       ELSE LET st == ExecuteCompanies(
                        [tbl |-> tbl, seq |-> seq, touched |-> {}, raised |-> FALSE],
                        rows)
            IN [tbl |-> IF st.raised THEN tbl ELSE st.tbl,
                seq |-> st.seq, raised |-> st.raised]

\* history: this call repeats the call before it (same function, same input)
SameCall(op, arg) == lastCall.op = op /\ lastCall.arg = arg

upsert_companies(employers) ==
    LET out == UpsertCompaniesOutcome(companies, companies_seq, employers)
    IN /\ companies_seq + Len(employers) <= MaxCompanySeq
       /\ companies' = out.tbl
       /\ companies_seq' = out.seq
       /\ lastCall' = [op |-> "upsert_companies", arg |-> employers,
                       raised |-> out.raised,
                       again |-> SameCall("upsert_companies", employers)]
       /\ prevCompanies' = companies
       /\ prevVacancies' = vacancies
       /\ upserted' = upserted \cup {employers[i].id : i \in DOMAIN employers}
       /\ result' = [op |-> "none"]
       /\ UNCHANGED <<vacancies, vacancies_seq>>

----------------------------------------------------------------------------
(* loader.insert_vacancies *)

\* loader.py:32-36
_parse_salary(salary) ==
    IF IsNone(salary) THEN [from |-> None, to |-> None, currency |-> None]
    ELSE [from |-> Val(salary).from, to |-> Val(salary).to,
          currency |-> Val(salary).currency]

\* the map with the columns of the SELECT taken in the wrong order: local id -> hh_id
CompanyMapSwapped(tbl) == [c \in {r.id : r \in tbl} |-> (CHOOSE r \in tbl : r.id = c).hh_id]

\* loader.py:97-98, mapping = {hh_id: cid for (cid, hh_id) in cur.fetchall()}
CompanyMap(tbl) == [h \in {r.hh_id : r \in tbl} |-> (CHOOSE r \in tbl : r.hh_id = h).id]

\* loader.py:103-109: the posting has an employer id that the map resolves
Eligible(mapping, vac) ==
    /\ ~IsNone(vac.employer)
    /\ ~IsNone(Val(vac.employer).id)
    /\ Val(Val(vac.employer).id) \in DOMAIN mapping

\* loader.py:111-123, the tuple built for an eligible posting
VacancyTuple(mapping, vac) ==
    LET s == _parse_salary(vac.salary)
    IN [hh_id |-> vac.id,
        company_id |-> mapping[Val(Val(vac.employer).id)],
        title |-> vac.name,
        salary_from |-> s.from, salary_to |-> s.to, salary_currency |-> s.currency,
        alternate_url |-> vac.alternate_url]

\* loader.py:100-123, the rows list: eligible postings, in input order
RECURSIVE VacancyTuples(_, _)
VacancyTuples(mapping, vacs) ==
    IF vacs = <<>> THEN <<>>
    ELSE IF Eligible(mapping, Head(vacs))
         THEN <<VacancyTuple(mapping, Head(vacs))>> \o VacancyTuples(mapping, Tail(vacs))
         ELSE VacancyTuples(mapping, Tail(vacs))

\* INSERT INTO vacancies (...) VALUES row ON CONFLICT (hh_id) DO UPDATE SET
\* every column but id and hh_id, for one row of the VALUES list
UpsertVacancyRow(st, row) ==
    IF st.raised THEN st
    ELSE LET id == st.seq + 1       \* DEFAULT nextval('vacancies_id_seq')
         IN IF row.hh_id \in st.touched
            THEN [st EXCEPT !.seq = id, !.raised = TRUE]
            ELSE IF \E r \in st.tbl : r.hh_id = row.hh_id
            THEN [st EXCEPT
                    !.seq = id,
                    !.touched = @ \cup {row.hh_id},
                    !.tbl = {IF r.hh_id = row.hh_id
                             THEN [id |-> r.id] @@ row
                             ELSE r : r \in @}]
            ELSE [st EXCEPT
                    !.seq = id,
                    !.touched = @ \cup {row.hh_id},
                    !.tbl = @ \cup {[id |-> id] @@ row}]

RECURSIVE ExecuteVacancies(_, _)
ExecuteVacancies(st, rows) ==
    IF rows = <<>> THEN st
    ELSE ExecuteVacancies(UpsertVacancyRow(st, Head(rows)), Tail(rows))

\* The outcome of insert_vacancies(config, vacs): [tbl, seq, raised]
InsertVacanciesOutcome(ctbl, vtbl, seq, vacs) ==
    LET rows == VacancyTuples(CompanyMap(ctbl), vacs)
    IN IF rows = <<>> THEN [tbl |-> vtbl, seq |-> seq, raised |-> FALSE]
       ELSE LET st == ExecuteVacancies(
                        [tbl |-> vtbl, seq |-> seq, touched |-> {}, raised |-> FALSE],
                        rows)
            IN [tbl |-> IF st.raised THEN vtbl ELSE st.tbl,
                seq |-> st.seq, raised |-> st.raised]

insert_vacancies(vacs) ==
    LET out == InsertVacanciesOutcome(companies, vacancies, vacancies_seq, vacs)
    IN /\ vacancies_seq + Len(vacs) <= MaxVacancySeq
       /\ vacancies' = out.tbl
       /\ vacancies_seq' = out.seq
       /\ lastCall' = [op |-> "insert_vacancies", arg |-> vacs, raised |-> out.raised,
                       again |-> SameCall("insert_vacancies", vacs)]
       /\ prevCompanies' = companies
       /\ prevVacancies' = vacancies
       /\ result' = [op |-> "none"]
       /\ UNCHANGED <<companies, companies_seq, upserted>>

----------------------------------------------------------------------------
(* The store under any sequence of calls of the two writers *)

\* postings of the API as insert_vacancies reads them: the employer object may
\* be missing, may lack its id, or names an employer that is stored or not
Employers ==
    {None, Some([id |-> None])} \cup {Some([id |-> Some(h)]) : h \in HhIds}

Salaries == {None}

PostingPayloads ==
    [id : HhIds, employer : Employers, name : {"dev"}, salary : Salaries,
     alternate_url : {Some("vac")}]

\* no call of get_vacancies_by_employer is in progress
ApiIdle ==
    /\ api_pc = "idle"
    /\ max_pages = 0
    /\ page = 0
    /\ all_items = <<>>
    /\ api_return = None
    /\ requests = <<>>

\* no run of load_hh_data_to_db is in progress
LoadIdle ==
    /\ load_pc = "idle"
    /\ seeds = <<>>
    /\ seed_i = 1
    /\ employers_payload = <<>>
    /\ all_vacancies = <<>>
    /\ failed_at = "none"
    /\ load_start = [companies |-> {}, vacancies |-> {}]
    /\ load_writes = <<>>

\* no transaction is open
TxIdle ==
    /\ tx_pc = "idle"
    /\ tx_rows = <<>>
    /\ tx_st = [tbl |-> {}, seq |-> 0, touched |-> {}, raised |-> FALSE]
    /\ tx_seq0 = 0
    /\ tx_seen = None

Init ==
    /\ ApiIdle
    /\ LoadIdle
    /\ TxIdle
    /\ companies = {}
    /\ vacancies = {}
    /\ companies_seq = 0
    /\ vacancies_seq = 0
    /\ lastCall = [op |-> "none", arg |-> <<>>, raised |-> FALSE, again |-> FALSE]
    /\ prevCompanies = {}
    /\ prevVacancies = {}
    /\ upserted = {}
    /\ result = [op |-> "none"]

UpsertCompanies ==
    /\ \E employers \in SeqsUpTo(EmployerPayloads, MaxBatch) : upsert_companies(employers)
    /\ UNCHANGED <<apiVars, loadVars, txVars>>

InsertVacancies ==
    /\ \E vacs \in SeqsUpTo(PostingPayloads, MaxBatch) : insert_vacancies(vacs)
    /\ UNCHANGED <<apiVars, loadVars, txVars>>

Next == UpsertCompanies \/ InsertVacancies

vars == <<companies, vacancies, companies_seq, vacancies_seq,
          lastCall, prevCompanies, prevVacancies, upserted, result,
          api_pc, max_pages, page, all_items, api_return, requests,
          load_pc, seeds, seed_i, employers_payload, all_vacancies, failed_at,
          load_start, load_writes,
          tx_pc, tx_rows, tx_st, tx_seq0, tx_seen>>

Spec == Init /\ [][Next]_vars

----------------------------------------------------------------------------
(* Claims about the writers, under Spec *)

\* the local id of the company with external id h
CompanyId(tbl, h) == (CHOOSE r \in tbl : r.hh_id = h).id

\* the posting's employer id resolves against table tbl
Resolves(tbl, vac) ==
    /\ ~IsNone(vac.employer)
    /\ ~IsNone(Val(vac.employer).id)
    /\ \E c \in tbl : c.hh_id = Val(Val(vac.employer).id)

\* C1: every vacancy row references a company row that exists; a row that
\* insert_vacancies wrote comes from a posting whose employer id is the hh_id of
\* a stored company, and references that company; a call raises only over two
\* resolvable postings with the same id, so a posting that resolves to no
\* company is dropped without raising and nothing is written for it.
C1_VacanciesReferenceCompanies ==
    /\ \A v \in vacancies : \E c \in companies : c.id = v.company_id
    /\ lastCall.op = "insert_vacancies" =>
        LET vacs == lastCall.arg
        IN /\ \A v \in vacancies \ prevVacancies :
                \E i \in DOMAIN vacs :
                    /\ Resolves(companies, vacs[i])
                    /\ vacs[i].id = v.hh_id
                    /\ v.company_id = CompanyId(companies, Val(Val(vacs[i].employer).id))
           /\ lastCall.raised =>
                \E i, j \in DOMAIN vacs :
                    /\ i # j
                    /\ vacs[i].id = vacs[j].id
                    /\ Resolves(companies, vacs[i])
                    /\ Resolves(companies, vacs[j])
           /\ (\A i \in DOMAIN vacs : ~Resolves(companies, vacs[i])) =>
                vacancies = prevVacancies

\* a call that held a posting that resolves to no company
\* and a posting that resolves, and wrote a row
C1_Witness ==
    /\ lastCall.op = "insert_vacancies"
    /\ ~lastCall.raised
    /\ \E i, j \in DOMAIN lastCall.arg :
        /\ ~Resolves(companies, lastCall.arg[i])
        /\ Resolves(companies, lastCall.arg[j])
    /\ vacancies # prevVacancies

\* C2: a call of upsert_companies or insert_vacancies that repeats the call
\* before it with the same input leaves both tables as the first call left them;
\* and from the store as it is, for every input, the second of two calls with
\* that input leaves the table (ids, hh_ids and all other columns) as the first
\* left it.
C2_Idempotent ==
    /\ lastCall.again => companies = prevCompanies /\ vacancies = prevVacancies
    /\ \A employers \in SeqsUpTo(EmployerPayloads, MaxBatch) :
        LET once == UpsertCompaniesOutcome(companies, companies_seq, employers)
            twice == UpsertCompaniesOutcome(once.tbl, once.seq, employers)
        IN twice.tbl = once.tbl /\ twice.raised = once.raised
    /\ \A vacs \in SeqsUpTo(PostingPayloads, MaxBatch) :
        LET once == InsertVacanciesOutcome(companies, vacancies, vacancies_seq, vacs)
            twice == InsertVacanciesOutcome(companies, once.tbl, once.seq, vacs)
        IN twice.tbl = once.tbl /\ twice.raised = once.raised

C2_Witness ==
    /\ lastCall.again
    /\ lastCall.op = "insert_vacancies"
    /\ ~lastCall.raised
    /\ \E i \in DOMAIN lastCall.arg : Resolves(companies, lastCall.arg[i])
    /\ \E c \in companies : c.id # c.hh_id

\* C3 as claimed: the table holds exactly one row per hh_id ever passed to
\* upsert_companies, and a call with a stored hh_id keeps the row's id and sets
\* its name and url to those of the new record.
C3_OneRowPerUpsertedId ==
    /\ {r.hh_id : r \in companies} = upserted
    /\ Cardinality(companies) = Cardinality(upserted)
    /\ lastCall.op = "upsert_companies" =>
        \A i \in DOMAIN lastCall.arg :
            LET emp == lastCall.arg[i]
            IN (\E p \in prevCompanies : p.hh_id = emp.id) =>
                /\ Cardinality(companies) >= Cardinality(prevCompanies)
                /\ \E r \in companies :
                    /\ r.hh_id = emp.id
                    /\ r.id = CompanyId(prevCompanies, emp.id)
                    /\ r.name = emp.name
                    /\ r.url = Or(emp.alternate_url, emp.url)

----------------------------------------------------------------------------
(* db_manager.DBManager: the queries, as functions of the two tables *)

\* a numeric value n/d (d > 0); PostgreSQL's numeric division and AVG keep the
\* fraction, which the model holds exactly
Rat(n, d) == [n |-> n, d |-> d]
RatAdd(a, b) == Rat(a.n * b.d + b.n * a.d, a.d * b.d)
RatGt(a, b) == a.n * b.d > b.n * a.d
RatGe(a, b) == a.n * b.d >= b.n * a.d

\* the CASE with the sum divided as integers: (salary_from + salary_to) / 2
SalaryCaseIntDiv(v) ==
    IF ~IsNone(v.salary_from) /\ ~IsNone(v.salary_to)
    THEN Some(Rat((Val(v.salary_from) + Val(v.salary_to)) \div 2, 1))
    ELSE IF ~IsNone(v.salary_from) THEN Some(Rat(Val(v.salary_from), 1))
    ELSE IF ~IsNone(v.salary_to) THEN Some(Rat(Val(v.salary_to), 1))
    ELSE None

\* CASE WHEN salary_from IS NOT NULL AND salary_to IS NOT NULL
\*        THEN (salary_from + salary_to) / 2.0
\*      WHEN salary_from IS NOT NULL THEN salary_from * 1.0
\*      WHEN salary_to IS NOT NULL THEN salary_to * 1.0
\*      ELSE NULL END
SalaryCase(v) ==
    IF ~IsNone(v.salary_from) /\ ~IsNone(v.salary_to)
    THEN Some(Rat(Val(v.salary_from) + Val(v.salary_to), 2))
    ELSE IF ~IsNone(v.salary_from) THEN Some(Rat(Val(v.salary_from), 1))
    ELSE IF ~IsNone(v.salary_to) THEN Some(Rat(Val(v.salary_to), 1))
    ELSE None

\* the sum of SalaryCase over a set of rows where it is not NULL
RECURSIVE SalarySum(_)
SalarySum(rows) ==
    IF rows = {} THEN Rat(0, 1)
    ELSE LET v == CHOOSE x \in rows : TRUE
         IN RatAdd(Val(SalaryCase(v)), SalarySum(rows \ {v}))

\* SELECT AVG(CASE ...) FROM vacancies: AVG skips NULLs and is NULL over none
AvgSalary(vtbl) ==
    LET counted == {v \in vtbl : ~IsNone(SalaryCase(v))}
    IN IF counted = {} THEN None
       ELSE LET sum == SalarySum(counted)
            IN Some(Rat(sum.n, sum.d * Cardinality(counted)))

\* a > b in SQL: NULL (here None) when either side is NULL
SqlGt(a, b) == IF IsNone(a) \/ IsNone(b) THEN None ELSE Some(RatGt(Val(a), Val(b)))

\* a >= b in place of a > b
SqlGe(a, b) == IF IsNone(a) \/ IsNone(b) THEN None ELSE Some(RatGe(Val(a), Val(b)))

\* FROM vacancies v JOIN companies c ON c.id = v.company_id
JoinCompanies(ctbl, vtbl) ==
    {j \in [c : ctbl, v : vtbl] : j.c.id = j.v.company_id}

\* SELECT c.name, v.title, v.salary_from, v.salary_to, v.salary_currency, v.alternate_url
VacancyView(j) ==
    [company_name |-> j.c.name, vacancy_title |-> j.v.title,
     salary_from |-> j.v.salary_from, salary_to |-> j.v.salary_to,
     currency |-> j.v.salary_currency, url |-> j.v.alternate_url]

\* the rows a query returns, as a bag: ORDER BY c.name, v.title fixes only the
\* order of the list, which no property below reads
Views(joined) ==
    [w \in {VacancyView(j) : j \in joined} |->
        Cardinality({j \in joined : VacancyView(j) = w})]

\* db_manager.py:52-75
AllVacancies(ctbl, vtbl) == Views(JoinCompanies(ctbl, vtbl))

\* the filter with >= for >
HigherSalaryOrEqual(ctbl, vtbl) ==
    Views({j \in JoinCompanies(ctbl, vtbl) :
            SqlGe(SalaryCase(j.v), AvgSalary(vtbl)) = Some(TRUE)})

\* db_manager.py:105-137: WITH s AS (SELECT AVG(CASE ...) FROM vacancies)
\* SELECT ... FROM vacancies v JOIN companies c ... CROSS JOIN s WHERE CASE ... > s.avg_salary
HigherSalary(ctbl, vtbl) ==
    Views({j \in JoinCompanies(ctbl, vtbl) :
            SqlGt(SalaryCase(j.v), AvgSalary(vtbl)) = Some(TRUE)})

\* db_manager.py:38-50: SELECT c.name, COUNT(v.id) FROM companies c
\* LEFT JOIN vacancies v ON v.company_id = c.id GROUP BY c.name;
\* one (name, count) pair per group, so per distinct name
CompaniesAndVacanciesCount(ctbl, vtbl) ==
    {<<name, Cardinality({j \in JoinCompanies(ctbl, vtbl) : j.c.name = name})>> :
        name \in {c.name : c \in ctbl}}

\* a query reads the committed tables and changes nothing
Query(op, value) ==
    /\ result' = [op |-> op, value |-> value]
    /\ UNCHANGED <<storeVars, histVars, apiVars, loadVars, txVars>>

get_companies_and_vacancies_count ==
    Query("get_companies_and_vacancies_count", CompaniesAndVacanciesCount(companies, vacancies))

get_all_vacancies == Query("get_all_vacancies", AllVacancies(companies, vacancies))

\* float(avg_salary) if avg_salary is not None else None
get_avg_salary == Query("get_avg_salary", AvgSalary(vacancies))

get_vacancies_with_higher_salary ==
    Query("get_vacancies_with_higher_salary", HigherSalary(companies, vacancies))

----------------------------------------------------------------------------
(* The queries over stores that the writers have filled *)

MaxPostings == 2    \* postings the filled store is built from: ids 1..MaxPostings

Employer(h, name) ==
    [id |-> h, name |-> name, alternate_url |-> None, url |-> Some("api")]

\* one company, two companies with different names, two with the same name
QueryEmployers ==
    {<<Employer(1, "a")>>,
     <<Employer(1, "a"), Employer(2, "b")>>,
     <<Employer(1, "a"), Employer(2, "a")>>}

Salary(from, to) == Some([from |-> from, to |-> to, currency |-> Some("RUR")])

QuerySalaries ==
    {None, Salary(None, None), Salary(Some(100), None), Salary(None, Some(300)),
     Salary(Some(100), Some(200)), Salary(Some(101), Some(200))}

QueryPostings ==
    [id : 1..MaxPostings, employer : {Some([id |-> Some(h)]) : h \in 1..2},
     name : {"dev"}, salary : QuerySalaries, alternate_url : {Some("vac")}]

InitQuery ==
    \E employers \in QueryEmployers, vacs \in SeqsUpTo(QueryPostings, MaxPostings) :
        LET c == UpsertCompaniesOutcome({}, 0, employers)
            v == InsertVacanciesOutcome(c.tbl, {}, 0, vacs)
        IN /\ companies = c.tbl
           /\ companies_seq = c.seq
           /\ vacancies = v.tbl
           /\ vacancies_seq = v.seq
           /\ lastCall = [op |-> "insert_vacancies", arg |-> vacs, raised |-> v.raised,
                          again |-> FALSE]
           /\ prevCompanies = c.tbl
           /\ prevVacancies = {}
           /\ upserted = {employers[i].id : i \in DOMAIN employers}
           /\ result = [op |-> "none"]
           /\ ApiIdle
           /\ LoadIdle
           /\ TxIdle

NextQuery ==
    \/ get_companies_and_vacancies_count
    \/ get_all_vacancies
    \/ get_avg_salary
    \/ get_vacancies_with_higher_salary

SpecQuery == InitQuery /\ [][NextQuery]_vars

----------------------------------------------------------------------------
(* Claims about the queries, under SpecQuery *)

\* twice the computed salary of a row as the specification defines it: the
\* mean of from and to if both are present, the present one if only one is
HasSalary(v) == ~IsNone(v.salary_from) \/ ~IsNone(v.salary_to)
TwiceSalary(v) ==
    IF ~IsNone(v.salary_from) /\ ~IsNone(v.salary_to)
    THEN Val(v.salary_from) + Val(v.salary_to)
    ELSE IF ~IsNone(v.salary_from) THEN 2 * Val(v.salary_from)
    ELSE 2 * Val(v.salary_to)

RECURSIVE TwiceSalarySum(_)
TwiceSalarySum(rows) ==
    IF rows = {} THEN 0
    ELSE LET v == CHOOSE x \in rows : TRUE
         IN TwiceSalary(v) + TwiceSalarySum(rows \ {v})

\* the views of a set of vacancy rows, each with the name of its company
ViewsOf(rows) ==
    Views({[c |-> (CHOOSE x \in companies : x.id = v.company_id), v |-> v] : v \in rows})

\* C4: get_vacancies_with_higher_salary returns exactly the vacancies whose
\* computed salary is defined and strictly greater than what get_avg_salary
\* returns on the same store; none when get_avg_salary returns None.
C4_HigherThanAverage ==
    result.op = "get_vacancies_with_higher_salary" =>
        LET avg == AvgSalary(vacancies)
        IN result.value =
            ViewsOf({v \in vacancies :
                        /\ HasSalary(v)
                        /\ ~IsNone(avg)
                        /\ TwiceSalary(v) * Val(avg).d > 2 * Val(avg).n})

\* a store where one vacancy is returned and another is not
C4_Witness ==
    /\ result.op = "get_vacancies_with_higher_salary"
    /\ result.value # EmptyBag
    /\ \E v \in vacancies : ~HasSalary(v) \/ TwiceSalary(v) * Val(AvgSalary(vacancies)).d
                                              <= 2 * Val(AvgSalary(vacancies)).n

\* C5 as claimed: the result of get_vacancies_with_higher_salary is a strict
\* subset of the result of get_all_vacancies, in every store state.
C5_StrictSubsetAlways ==
    result.op = "get_vacancies_with_higher_salary" =>
        /\ result.value \sqsubseteq AllVacancies(companies, vacancies)
        /\ result.value # AllVacancies(companies, vacancies)

\* C5 amended: the result is a subset of get_all_vacancies, and a strict one
\* whenever a vacancy is stored.
C5_StrictSubsetWhenStored ==
    result.op = "get_vacancies_with_higher_salary" =>
        /\ result.value \sqsubseteq AllVacancies(companies, vacancies)
        /\ vacancies # {} => result.value # AllVacancies(companies, vacancies)

C5_Witness ==
    /\ result.op = "get_vacancies_with_higher_salary"
    /\ result.value # EmptyBag
    /\ BagCardinality(AllVacancies(companies, vacancies)) = 2

\* C6 as claimed: get_companies_and_vacancies_count returns one (name, count)
\* entry per company row, count being the number of vacancies that reference
\* the row (0 included), whatever the names of the companies.
C6_OneEntryPerCompany ==
    result.op = "get_companies_and_vacancies_count" =>
        /\ Cardinality(result.value) = Cardinality(companies)
        /\ \A c \in companies :
            <<c.name, Cardinality({v \in vacancies : v.company_id = c.id})>> \in result.value

\* C7: get_avg_salary returns the exact mean of the computed salary over the
\* vacancies that have one, and None when no vacancy has one.
C7_ExactMean ==
    result.op = "get_avg_salary" =>
        LET counted == {v \in vacancies : HasSalary(v)}
        IN IF counted = {} THEN IsNone(result.value)
           ELSE /\ ~IsNone(result.value)
                /\ Val(result.value).n * 2 * Cardinality(counted)
                    = TwiceSalarySum(counted) * Val(result.value).d

\* the store of the specification's example, (100, 200) and (None, 300): 225
C7_Witness ==
    /\ result.op = "get_avg_salary"
    /\ {<<v.salary_from, v.salary_to>> : v \in vacancies}
        = {<<Some(100), Some(200)>>, <<None, Some(300)>>}
    /\ Cardinality(vacancies) = 2
    /\ Val(result.value).n = 225 * Val(result.value).d

----------------------------------------------------------------------------
(* hh_api.HeadHunterAPI.get_vacancies_by_employer *)

MaxMaxPages == 3    \* the largest max_pages argument; the upstream reports up to one more

\* what the upstream can answer to the request of page p: a failure (a non-2xx
\* status, raise_for_status raises), or a body whose "items" and "pages" keys
\* may each be missing; an item is labelled with the page it came with
Responses(p) ==
    {[ok |-> FALSE, items |-> None, pages |-> None]} \cup
    [ok : {TRUE}, items : {None, Some(<<>>), Some(<<p>>)},
     pages : {None} \cup {Some(n) : n \in (-1)..(MaxMaxPages + 1)}]

\* data.get("items", [])
ItemsOf(resp) == IF IsNone(resp.items) THEN <<>> ELSE Val(resp.items)

\* int(data.get("pages", 0))
PagesOf(resp) == IF IsNone(resp.pages) THEN 0 ELSE Val(resp.pages)

\* the loop stops only when the upstream says so: while True without the cap
LoopEndsUncapped(p, pages, cap) == p + 1 >= pages

\* hh_api.py:46 and 60-62: the loop ends after page p by the break
\* (p + 1 >= pages) or because range(max_pages) is exhausted
LoopEnds(p, pages, cap) == p + 1 >= pages \/ p + 1 >= cap

\* the call, up to its first request: range(max_pages) is empty for max_pages <= 0
get_vacancies_by_employer(cap) ==
    /\ api_pc # "loop"
    /\ max_pages' = cap
    /\ page' = 0
    /\ all_items' = <<>>
    /\ requests' = <<>>
    /\ IF cap <= 0
       THEN api_pc' = "returned" /\ api_return' = Some(<<>>)
       ELSE api_pc' = "loop" /\ api_return' = None
    /\ UNCHANGED <<storeVars, histVars, result, loadVars, txVars>>

\* one iteration of the loop: the request of page `page` and what follows it
FetchPage ==
    /\ api_pc = "loop"
    /\ \E resp \in Responses(page) :
        /\ requests' = Append(requests, [page |-> page, resp |-> resp])
        /\ IF ~resp.ok
           THEN /\ api_pc' = "raised"
                /\ api_return' = None
                /\ UNCHANGED <<page, all_items>>
           ELSE /\ all_items' = all_items \o ItemsOf(resp)
                /\ IF LoopEnds(page, PagesOf(resp), max_pages)
                   THEN /\ api_pc' = "returned"
                        /\ api_return' = Some(all_items')
                        /\ page' = page
                   ELSE /\ api_pc' = "loop"
                        /\ api_return' = None
                        /\ page' = page + 1
    /\ UNCHANGED <<max_pages, storeVars, histVars, result, loadVars, txVars>>

CallGetVacancies == \E cap \in (-1)..MaxMaxPages : get_vacancies_by_employer(cap)

NextApi == CallGetVacancies \/ FetchPage

\* every request is answered or fails within its timeout (timeout=30)
SpecApi == Init /\ [][NextApi]_vars /\ WF_vars(FetchPage)

----------------------------------------------------------------------------
(* Claims about get_vacancies_by_employer, under SpecApi *)

RECURSIVE ConcatItems(_)
ConcatItems(reqs) ==
    IF reqs = <<>> THEN <<>>
    ELSE ItemsOf(Head(reqs).resp) \o ConcatItems(Tail(reqs))

\* the request after which the claim says the loop stops
StopsAfter(req) ==
    req.page + 1 >= PagesOf(req.resp) \/ req.page + 1 = max_pages

C8_Requests ==
    /\ \A i \in DOMAIN requests : requests[i].page = i - 1
    /\ Len(requests) <= IF max_pages > 0 THEN max_pages ELSE 0
    /\ \A i \in DOMAIN requests :
        i < Len(requests) => requests[i].resp.ok /\ ~StopsAfter(requests[i])
    /\ api_pc = "loop" =>
        /\ page = Len(requests)
        /\ \A i \in DOMAIN requests : requests[i].resp.ok /\ ~StopsAfter(requests[i])
    /\ api_pc = "returned" =>
        /\ \A i \in DOMAIN requests : requests[i].resp.ok
        /\ requests # <<>> => StopsAfter(requests[Len(requests)])
        /\ api_return = Some(ConcatItems(requests))
    /\ api_pc = "raised" =>
        /\ requests # <<>>
        /\ ~requests[Len(requests)].resp.ok
        /\ api_return = None

\* C8: whatever the upstream reports, the call requests pages 0, 1, 2, ... in
\* order, at most max_pages of them, goes on exactly while neither
\* p + 1 >= pages nor p + 1 = max_pages holds for the page p just fetched,
\* returns the items of the fetched pages in request order, returns nothing
\* when a request fails, and always comes to an end.
C8_BoundedPagination == []C8_Requests /\ ((api_pc = "loop") ~> (api_pc # "loop"))

\* the cap ends a call whose upstream always reports more pages than were asked
C8_Witness ==
    /\ api_pc = "returned"
    /\ max_pages >= 2
    /\ Len(requests) = max_pages
    /\ \A i \in DOMAIN requests : PagesOf(requests[i].resp) > max_pages
    /\ Len(Val(api_return)) = max_pages

----------------------------------------------------------------------------
(* loader.load_hh_data_to_db *)

MaxSeeds == 2       \* employers in the seeds list

\* what api.get_employer(hh_id) can do: raise (raise_for_status), or return the
\* employer object of that id
EmployerResponses(h) ==
    {[ok |-> FALSE, employer |-> None]} \cup
    {[ok |-> TRUE, employer |-> Some(Employer(h, name))] : name \in Names}

Posting(k, h) ==
    [id |-> k, employer |-> Some([id |-> Some(h)]), name |-> "dev", salary |-> None,
     alternate_url |-> Some("vac")]

\* what api.get_vacancies_by_employer(employer_id=h, ...) can do: raise, or
\* return the postings of the pages it fetched
VacancyResponses(h) ==
    {[ok |-> FALSE, items |-> <<>>]} \cup
    {[ok |-> TRUE, items |-> items] : items \in {<<>>} \cup {<<Posting(k, h)>> : k \in HhIds}}

\* every employer is written as soon as it is fetched
UpsertEachFetched(tbl, seq, emp) ==
    LET out == UpsertCompaniesOutcome(tbl, seq, <<emp>>)
    IN [tbl |-> out.tbl, seq |-> out.seq]

\* loader.py:163: the comprehension only collects the employer objects; table
\* companies and its sequence are as they were
CompaniesWhileFetching(tbl, seq, emp) == [tbl |-> tbl, seq |-> seq]

load_hh_data_to_db(s) ==
    /\ load_pc \in {"idle", "done", "failed"}
    /\ load_pc' = "employers"
    /\ seeds' = s
    /\ seed_i' = 1
    /\ employers_payload' = <<>>
    /\ all_vacancies' = <<>>
    /\ failed_at' = "none"
    /\ load_start' = [companies |-> companies, vacancies |-> vacancies]
    /\ load_writes' = <<>>
    /\ UNCHANGED <<storeVars, histVars, result, apiVars, txVars>>

\* loader.py:163, one element of the comprehension
GetEmployer ==
    /\ load_pc = "employers"
    /\ seed_i <= Len(seeds)
    /\ \E resp \in EmployerResponses(seeds[seed_i]) :
        IF ~resp.ok
        THEN /\ load_pc' = "failed"
             /\ failed_at' = "get_employer"
             /\ UNCHANGED <<seed_i, employers_payload, companies, companies_seq>>
        ELSE LET db == CompaniesWhileFetching(companies, companies_seq, Val(resp.employer))
             IN /\ employers_payload' = Append(employers_payload, Val(resp.employer))
                /\ seed_i' = seed_i + 1
                /\ companies' = db.tbl
                /\ companies_seq' = db.seq
                /\ UNCHANGED <<load_pc, failed_at>>
    /\ UNCHANGED <<vacancies, vacancies_seq, histVars, result, apiVars, txVars,
                   seeds, all_vacancies, load_start, load_writes>>

\* loader.py:164
LoadUpsertCompanies ==
    /\ load_pc = "employers"
    /\ seed_i > Len(seeds)
    /\ upsert_companies(employers_payload)
    /\ load_writes' = Append(load_writes, "upsert_companies")
    /\ IF UpsertCompaniesOutcome(companies, companies_seq, employers_payload).raised
       THEN load_pc' = "failed" /\ failed_at' = "upsert_companies" /\ UNCHANGED seed_i
       ELSE load_pc' = "postings" /\ seed_i' = 1 /\ UNCHANGED failed_at
    /\ UNCHANGED <<apiVars, txVars, seeds, employers_payload, all_vacancies, load_start>>

\* loader.py:167-174, one iteration
GetVacancies ==
    /\ load_pc = "postings"
    /\ seed_i <= Len(seeds)
    /\ \E resp \in VacancyResponses(seeds[seed_i]) :
        IF ~resp.ok
        THEN /\ load_pc' = "failed"
             /\ failed_at' = "get_vacancies_by_employer"
             /\ UNCHANGED <<seed_i, all_vacancies>>
        ELSE /\ all_vacancies' = all_vacancies \o resp.items
             /\ seed_i' = seed_i + 1
             /\ UNCHANGED <<load_pc, failed_at>>
    /\ UNCHANGED <<storeVars, histVars, result, apiVars, txVars,
                   seeds, employers_payload, load_start, load_writes>>

\* loader.py:176
LoadInsertVacancies ==
    /\ load_pc = "postings"
    /\ seed_i > Len(seeds)
    /\ insert_vacancies(all_vacancies)
    /\ load_writes' = Append(load_writes, "insert_vacancies")
    /\ IF InsertVacanciesOutcome(companies, vacancies, vacancies_seq, all_vacancies).raised
       THEN load_pc' = "failed" /\ failed_at' = "insert_vacancies"
       ELSE load_pc' = "done" /\ UNCHANGED failed_at
    /\ UNCHANGED <<apiVars, txVars, seeds, seed_i, employers_payload, all_vacancies,
                   load_start>>

StartLoad == \E s \in SeqsUpTo(HhIds, MaxSeeds) : load_hh_data_to_db(s)

NextLoad ==
    \/ StartLoad
    \/ GetEmployer
    \/ LoadUpsertCompanies
    \/ GetVacancies
    \/ LoadInsertVacancies

SpecLoad == Init /\ [][NextLoad]_vars

----------------------------------------------------------------------------
(* Claims about load_hh_data_to_db, under SpecLoad *)

\* the run has written nothing: no store call, both tables as at its start
NothingWritten ==
    /\ load_writes = <<>>
    /\ companies = load_start.companies
    /\ vacancies = load_start.vacancies

\* C9: while the employers are being fetched, and when get_employer has failed
\* for a seed (the first or a later one), the run has executed neither
\* upsert_companies nor insert_vacancies and both tables are as they were when
\* the run began.
C9_FailFastBeforeWrite ==
    /\ load_pc = "employers" => NothingWritten
    /\ (load_pc = "failed" /\ failed_at = "get_employer") => NothingWritten

\* the second seed failed after the first was fetched, on a store that an
\* earlier run had filled
C9_Witness ==
    /\ load_pc = "failed"
    /\ failed_at = "get_employer"
    /\ seed_i = 2
    /\ Len(employers_payload) = 1
    /\ companies # {}
    /\ \A c \in companies : c.hh_id # employers_payload[1].id

----------------------------------------------------------------------------
(* One writer call as a transaction ("with conn:"), with a reader beside it.  *)
(* The INSERT works through its VALUES list row by row inside the             *)
(* transaction; a reader's query sees committed rows only (READ COMMITTED).   *)

\* the statement's rows reach the table as they are written (autocommit)
CommittedAtOnce(committed, working) == working

\* loader.py:69 and 95, "with conn:": nothing the open transaction has written
\* is committed before the block ends
CommittedInside(committed, working) == committed

TxEmployers == {Employer(h, name) : h \in HhIds, name \in Names}
TxPostings == {Posting(k, h) : k \in HhIds, h \in HhIds}

\* the call up to its first row: the rows list is built, the connection opened
BeginCall(op, arg, rows, tbl, seq) ==
    /\ tx_pc = "idle"
    /\ lastCall' = [op |-> op, arg |-> arg, raised |-> FALSE, again |-> SameCall(op, arg)]
    /\ prevCompanies' = companies
    /\ prevVacancies' = vacancies
    /\ tx_seq0' = seq
    /\ tx_seen' = None
    /\ IF rows = <<>>
       THEN UNCHANGED <<tx_pc, tx_rows, tx_st>>     \* "if not rows: return"
       ELSE /\ tx_pc' = "open"
            /\ tx_rows' = rows
            /\ tx_st' = [tbl |-> tbl, seq |-> seq, touched |-> {}, raised |-> FALSE]
    /\ result' = [op |-> "none"]
    /\ UNCHANGED <<storeVars, apiVars, loadVars>>

\* loader.py:60-70
BeginUpsertCompanies ==
    \E employers \in SeqsUpTo(TxEmployers, MaxBatch) :
        /\ companies_seq + Len(employers) <= MaxCompanySeq
        /\ BeginCall("upsert_companies", employers, CompanyTuples(employers),
                     companies, companies_seq)
        /\ upserted' = upserted \cup {employers[i].id : i \in DOMAIN employers}

\* loader.py:93-126
BeginInsertVacancies ==
    \E vacs \in SeqsUpTo(TxPostings, MaxBatch) :
        /\ vacancies_seq + Len(vacs) <= MaxVacancySeq
        /\ BeginCall("insert_vacancies", vacs, VacancyTuples(CompanyMap(companies), vacs),
                     vacancies, vacancies_seq)
        /\ UNCHANGED upserted

\* the statement handles the next row of its VALUES list
TxRow ==
    /\ tx_pc = "open"
    /\ tx_rows # <<>>
    /\ ~tx_st.raised
    /\ IF lastCall.op = "upsert_companies"
       THEN LET st == UpsertCompanyRow(tx_st, Head(tx_rows))
            IN /\ tx_st' = st
               /\ companies_seq' = st.seq
               /\ companies' = CommittedInside(companies, st.tbl)
               /\ UNCHANGED <<vacancies, vacancies_seq>>
       ELSE LET st == UpsertVacancyRow(tx_st, Head(tx_rows))
            IN /\ tx_st' = st
               /\ vacancies_seq' = st.seq
               /\ vacancies' = CommittedInside(vacancies, st.tbl)
               /\ UNCHANGED <<companies, companies_seq>>
    /\ tx_rows' = Tail(tx_rows)
    /\ UNCHANGED <<histVars, result, apiVars, loadVars, tx_pc, tx_seq0, tx_seen>>

\* the block ends normally: commit
TxCommit ==
    /\ tx_pc = "open"
    /\ tx_rows = <<>>
    /\ ~tx_st.raised
    /\ tx_pc' = "idle"
    /\ IF lastCall.op = "upsert_companies"
       THEN companies' = tx_st.tbl /\ UNCHANGED vacancies
       ELSE vacancies' = tx_st.tbl /\ UNCHANGED companies
    /\ UNCHANGED <<companies_seq, vacancies_seq, histVars, result, apiVars, loadVars,
                   tx_rows, tx_st, tx_seq0, tx_seen>>

\* the statement has failed on a constraint, or the store fails under it (the
\* connection is lost) at any point: the block raises, rollback
TxFail ==
    /\ tx_pc = "open"
    /\ tx_pc' = "idle"
    /\ lastCall' = [lastCall EXCEPT !.raised = TRUE]
    /\ UNCHANGED <<storeVars, prevCompanies, prevVacancies, upserted, result, apiVars,
                   loadVars, tx_rows, tx_st, tx_seq0, tx_seen>>

\* a DBManager query, at any moment: it reads the committed tables
Read ==
    /\ tx_seen' = Some([companies |-> companies, vacancies |-> vacancies])
    /\ UNCHANGED <<storeVars, histVars, result, apiVars, loadVars,
                   tx_pc, tx_rows, tx_st, tx_seq0>>

NextTx ==
    \/ BeginUpsertCompanies
    \/ BeginInsertVacancies
    \/ TxRow
    \/ TxCommit
    \/ TxFail
    \/ Read

SpecTx == Init /\ [][NextTx]_vars

----------------------------------------------------------------------------
(* Claims about the transactions, under SpecTx *)

Before == [companies |-> prevCompanies, vacancies |-> prevVacancies]
Now == [companies |-> companies, vacancies |-> vacancies]

\* the two tables with the whole batch of the last call applied to Before
WholeBatch ==
    IF lastCall.op = "upsert_companies"
    THEN [companies |-> UpsertCompaniesOutcome(prevCompanies, tx_seq0, lastCall.arg).tbl,
          vacancies |-> prevVacancies]
    ELSE [companies |-> prevCompanies,
          vacancies |-> InsertVacanciesOutcome(prevCompanies, prevVacancies, tx_seq0,
                                               lastCall.arg).tbl]

\* C10: while a call's transaction is open none of its rows is committed; what a
\* reader has read since the call began is the store before the batch or the
\* store with the whole batch; a call that failed leaves the store as it was
\* before the batch (with every earlier batch still in it), a call that ended
\* normally leaves the store with the whole batch.
C10_AtomicBatch ==
    /\ tx_pc = "open" => Now = Before
    /\ ~IsNone(tx_seen) => Val(tx_seen) \in {Before, WholeBatch}
    /\ (tx_pc = "idle" /\ lastCall.op # "none") =>
        Now = IF lastCall.raised THEN Before ELSE WholeBatch

\* a reader read while the first row of a two-row batch was written and the
\* second was not, on a store that held an earlier batch
C10_Witness ==
    /\ tx_pc = "open"
    /\ Len(tx_rows) = 1
    /\ tx_st.tbl # (IF lastCall.op = "upsert_companies" THEN companies ELSE vacancies)
    /\ ~IsNone(tx_seen)
    /\ companies # {}

----------------------------------------------------------------------------
(* DBManager.get_vacancies_with_keyword *)

MaxTitleLen == 2    \* characters in a stored title (a title is not empty)
MaxKeywordLen == 2  \* characters in a keyword

\* a text is a sequence of characters
TitleChars == {"p", "P", "j"}
KeywordChars == TitleChars \cup {"%", "_", "\\"}
Titles == SeqsUpTo(TitleChars, MaxTitleLen) \ {<<>>}
Keywords == SeqsUpTo(KeywordChars, MaxKeywordLen)

\* the case folding of ILIKE
Lower(ch) == IF ch = "P" THEN "p" ELSE IF ch = "J" THEN "j" ELSE ch

\* pattern = f"%{keyword}%"
Pattern(keyword) == <<"%">> \o keyword \o <<"%">>

\* txt ILIKE pat, with the default escape character: % stands for any run of
\* characters, _ for any one character, a backslash makes the next character
\* of the pattern stand for itself, any other character stands for itself up
\* to case. (A pattern that ends in a lone backslash is an error in
\* PostgreSQL; Pattern never builds one, it always ends in %.)
RECURSIVE ILike(_, _)
ILike(txt, pat) ==
    IF pat = <<>> THEN txt = <<>>
    ELSE IF Head(pat) = "%"
    THEN \/ ILike(txt, Tail(pat))
         \/ txt # <<>> /\ ILike(Tail(txt), pat)
    ELSE IF Head(pat) = "_"
    THEN txt # <<>> /\ ILike(Tail(txt), Tail(pat))
    ELSE IF Head(pat) = "\\"
    THEN /\ Len(pat) > 1
         /\ txt # <<>>
         /\ Lower(Head(txt)) = Lower(pat[2])
         /\ ILike(Tail(txt), Tail(Tail(pat)))
    ELSE /\ txt # <<>>
         /\ Lower(Head(txt)) = Lower(Head(pat))
         /\ ILike(Tail(txt), Tail(pat))

\* db_manager.py:139-158: SELECT ... FROM vacancies v JOIN companies c
\* ON c.id = v.company_id WHERE v.title ILIKE pattern
WithKeyword(ctbl, vtbl, keyword) ==
    Views({j \in JoinCompanies(ctbl, vtbl) : ILike(j.v.title, Pattern(keyword))})

get_vacancies_with_keyword(keyword) ==
    /\ result' = [op |-> "get_vacancies_with_keyword", keyword |-> keyword,
                  value |-> WithKeyword(companies, vacancies, keyword)]
    /\ UNCHANGED <<storeVars, histVars, apiVars, loadVars, txVars>>

\* the one company of the searched stores; its name is a text too
KeywordEmployers == {<<Employer(1, <<"p">>)>>}

KeywordPostings ==
    [id : 1..MaxPostings, employer : {Some([id |-> Some(1)])}, name : Titles,
     salary : {None}, alternate_url : {Some("vac")}]

\* a store the two writers have filled, with titles of every shape
InitKeyword ==
    \E employers \in KeywordEmployers, vacs \in SeqsUpTo(KeywordPostings, MaxPostings) :
        LET c == UpsertCompaniesOutcome({}, 0, employers)
            v == InsertVacanciesOutcome(c.tbl, {}, 0, vacs)
        IN /\ companies = c.tbl
           /\ companies_seq = c.seq
           /\ vacancies = v.tbl
           /\ vacancies_seq = v.seq
           /\ lastCall = [op |-> "insert_vacancies", arg |-> vacs, raised |-> v.raised,
                          again |-> FALSE]
           /\ prevCompanies = c.tbl
           /\ prevVacancies = {}
           /\ upserted = {employers[i].id : i \in DOMAIN employers}
           /\ result = [op |-> "none"]
           /\ ApiIdle
           /\ LoadIdle
           /\ TxIdle

GetVacanciesWithKeyword == \E keyword \in Keywords : get_vacancies_with_keyword(keyword)

NextKeyword ==
    \/ GetVacanciesWithKeyword
    \/ get_all_vacancies

SpecKeyword == InitKeyword /\ [][NextKeyword]_vars

----------------------------------------------------------------------------
(* Claims about the keyword search, under SpecKeyword *)

\* the text with its case folded
LowerText(txt) == [i \in DOMAIN txt |-> Lower(txt[i])]

\* keyword occurs in title as a run of the same characters, up to case
Contains(title, keyword) ==
    \E i \in 1..(Len(title) - Len(keyword) + 1) :
        LowerText(SubSeq(title, i, i + Len(keyword) - 1)) = LowerText(keyword)

\* the vacancies of the store whose title contains the keyword
TitleContains(keyword) ==
    Views({j \in JoinCompanies(companies, vacancies) : Contains(j.v.title, keyword)})

\* the keyword holds none of the characters that ILIKE reads as more than themselves
PlainKeyword(keyword) ==
    \A i \in DOMAIN keyword : keyword[i] \notin {"%", "_", "\\"}

\* C11: for every keyword and every store, get_vacancies_with_keyword returns
\* exactly the vacancies whose title contains the keyword as a literal
\* substring, compared without regard to case and on the title only; the empty
\* keyword returns every vacancy.
C11_LiteralSubstring ==
    result.op = "get_vacancies_with_keyword" =>
        /\ result.value = TitleContains(result.keyword)
        /\ result.keyword = <<>> => result.value = AllVacancies(companies, vacancies)

\* C11 for the keywords made of letters only: there the search is the literal,
\* case-blind, title-only substring search, and the empty keyword returns all
C11_LiteralSubstringPlain ==
    (result.op = "get_vacancies_with_keyword" /\ PlainKeyword(result.keyword)) =>
        /\ result.value = TitleContains(result.keyword)
        /\ result.keyword = <<>> => result.value = AllVacancies(companies, vacancies)

\* a search for "p" found the title "P" and passed over the title "j" of the
\* company named "p"
C11_PlainWitness ==
    /\ result.op = "get_vacancies_with_keyword"
    /\ result.keyword = <<"p">>
    /\ \E v \in vacancies : v.title = <<"P">>
    /\ \E v \in vacancies : v.title = <<"j">>
    /\ \A w \in DOMAIN result.value : w.vacancy_title # <<"j">>
    /\ \E w \in DOMAIN result.value : w.vacancy_title = <<"P">>

\* a search for "_" returned a vacancy whose title holds no "_"
C11_WildcardFound ==
    /\ result.op = "get_vacancies_with_keyword"
    /\ result.keyword = <<"_">>
    /\ \E w \in DOMAIN result.value : w.vacancy_title = <<"j">>

====
